---- MODULE Spec2Model ----
(***************************************************************************)
(* Model of src/app.py (Arm-2001/Regex): SmartRegexGenerator's response-   *)
(* to-pattern extraction cascade (extract_regex_from_response and its      *)
(* helpers) and its pattern tester (test_regex).                           *)
(*                                                                         *)
(* Strings are sequences of one-character strings.  The pattern engine     *)
(* (Python's re) is modelled for the dialect made of literals, ".", "^",   *)
(* "$", "|", capturing groups "(" ")" and the greedy "*"; the inputs of    *)
(* both specifications are drawn from alphabets inside that dialect.       *)
(***************************************************************************)
EXTENDS Naturals, Sequences, FiniteSets

(***************************************************************************)
(* Bounds of the model.                                                    *)
(***************************************************************************)
MaxFrags == 3
MaxPatLen == 4
MaxSampleLen == 2

(***************************************************************************)
(* Characters and elementary string functions.                             *)
(***************************************************************************)
NL == "\n"

\* the backtick character (it cannot be written inside a TLA+ string)
Backtick == "<backtick>"

Whitespace == {" ", "\t", "\n", "\r"}

UpperLetters == <<"A","B","C","D","E","F","G","H","I","J","K","L","M",
                  "N","O","P","Q","R","S","T","U","V","W","X","Y","Z">>
LowerLetters == <<"a","b","c","d","e","f","g","h","i","j","k","l","m",
                  "n","o","p","q","r","s","t","u","v","w","x","y","z">>

LowerChar(c) ==
    IF \E k \in 1..26 : UpperLetters[k] = c
    THEN LowerLetters[CHOOSE k \in 1..26 : UpperLetters[k] = c]
    ELSE c

lower(s) == [k \in 1..Len(s) |-> LowerChar(s[k])]

Min(S) == CHOOSE x \in S : \A y \in S : x <= y
Max(S) == CHOOSE x \in S : \A y \in S : x >= y

RECURSIVE LStrip(_)
LStrip(s) == IF s # <<>> /\ Head(s) \in Whitespace THEN LStrip(Tail(s)) ELSE s

RECURSIVE RStrip(_)
RStrip(s) ==
    IF s # <<>> /\ s[Len(s)] \in Whitespace
    THEN RStrip(SubSeq(s, 1, Len(s) - 1))
    ELSE s

strip(s) == RStrip(LStrip(s))

\* str.split('\n'): the lines of s, empty ones included
RECURSIVE SplitLines(_)
SplitLines(s) ==
    IF \E i \in 1..Len(s) : s[i] = NL
    THEN LET i == Min({j \in 1..Len(s) : s[j] = NL})
         IN  <<SubSeq(s, 1, i - 1)>> \o SplitLines(SubSeq(s, i + 1, Len(s)))
    ELSE <<s>>

\* str.split(): the maximal runs of non-whitespace characters of s
RECURSIVE SplitWords(_)
SplitWords(s) ==
    LET t == LStrip(s)
    IN  IF t = <<>> THEN <<>>
        ELSE LET ws == {j \in 1..Len(t) : t[j] \in Whitespace}
                 e  == IF ws = {} THEN Len(t) ELSE Min(ws) - 1
             IN  <<SubSeq(t, 1, e)>> \o SplitWords(SubSeq(t, e + 1, Len(t)))

\* keyword in text (substring test)
Contains(text, kw) ==
    \E i \in 1..(Len(text) + 1) :
        /\ i + Len(kw) - 1 <= Len(text)
        /\ \A j \in 1..Len(kw) : text[i + j - 1] = kw[j]

\* index of the last character of the line that holds position p
EndOfLine(text, p) ==
    LET nls == {j \in p..Len(text) : text[j] = NL}
    IN  IF nls = {} THEN Len(text) ELSE Min(nls) - 1

NoCapture == [found |-> FALSE, text |-> <<>>]
Capture(t) == [found |-> TRUE, text |-> t]

(***************************************************************************)
(* The pattern engine: re.compile.                                         *)
(* A compiled pattern is a sequence of alternatives, each a sequence of    *)
(* nodes: lit (a character), any ("."), at ("^" or "$"), star (a greedy    *)
(* repeat of one node) and group (a numbered capturing group).             *)
(***************************************************************************)
ParseError(msg) == [ok |-> FALSE, error |-> msg, pos |-> 0, g |-> 0,
                    items |-> <<>>, alts |-> <<>>]

RECURSIVE ParseSeq(_, _, _, _)
RECURSIVE ParseSub(_, _, _)

\* sre_parse._parse: the items of one alternative, up to "|", ")" or the end
ParseSeq(p, i, g, acc) ==
    IF i > Len(p) \/ p[i] \in {"|", ")"}
    THEN [ok |-> TRUE, error |-> "", pos |-> i, g |-> g, items |-> acc,
          alts |-> <<>>]
    ELSE
      LET c == p[i] IN
      CASE c = "*" ->
             IF acc = <<>> \/ acc[Len(acc)].k = "at"
             THEN ParseError("nothing to repeat")
             ELSE IF acc[Len(acc)].k = "star"
             THEN ParseError("multiple repeat")
             ELSE ParseSeq(p, i + 1, g,
                           Append(SubSeq(acc, 1, Len(acc) - 1),
                                  [k |-> "star", sub |-> acc[Len(acc)]]))
        [] c = "(" ->
             LET r == ParseSub(p, i + 1, g + 1) IN
             IF ~r.ok THEN r
             ELSE IF r.pos > Len(p) \/ p[r.pos] # ")"
             THEN ParseError("missing ), unterminated subpattern")
             ELSE ParseSeq(p, r.pos + 1, r.g,
                           Append(acc, [k |-> "group", n |-> g + 1,
                                        alts |-> r.alts]))
        [] c = "." -> ParseSeq(p, i + 1, g, Append(acc, [k |-> "any"]))
        [] c \in {"^", "$"} ->
             ParseSeq(p, i + 1, g, Append(acc, [k |-> "at", c |-> c]))
        [] OTHER -> ParseSeq(p, i + 1, g, Append(acc, [k |-> "lit", c |-> c]))

\* sre_parse._parse_sub: the alternatives separated by "|"
ParseSub(p, i, g) ==
    LET r == ParseSeq(p, i, g, <<>>) IN
    IF ~r.ok THEN r
    ELSE IF r.pos <= Len(p) /\ p[r.pos] = "|"
    THEN LET r2 == ParseSub(p, r.pos + 1, r.g) IN
         IF ~r2.ok THEN r2
         ELSE [ok |-> TRUE, error |-> "", pos |-> r2.pos, g |-> r2.g,
               items |-> <<>>, alts |-> <<r.items>> \o r2.alts]
    ELSE [ok |-> TRUE, error |-> "", pos |-> r.pos, g |-> r.g,
          items |-> <<>>, alts |-> <<r.items>>]

\* re.compile(pattern): the compiled pattern, or the re.error it raises
Compile(p) ==
    LET r == ParseSub(p, 1, 0) IN
    IF ~r.ok THEN [ok |-> FALSE, error |-> r.error, groups |-> 0, alts |-> <<>>]
    ELSE IF r.pos <= Len(p)
    THEN [ok |-> FALSE, error |-> "unbalanced parenthesis", groups |-> 0,
          alts |-> <<>>]
    ELSE [ok |-> TRUE, error |-> "", groups |-> r.g, alts |-> r.alts]

(***************************************************************************)
(* The pattern engine: matching.  A match attempt at a position yields the *)
(* outcomes the backtracking matcher would try, in its order of            *)
(* preference; an outcome is the position after the match and the groups   *)
(* captured on the way.  Positions are indexes of the next character to    *)
(* read, so the match from st to en is SubSeq(s, st, en - 1).              *)
(***************************************************************************)
Unset == [set |-> FALSE, st |-> 0, en |-> 0]

NoGroups(n) == [k \in 1..n |-> Unset]

RECURSIVE MatchNode(_, _, _, _)
RECURSIVE MatchItems(_, _, _, _)
RECURSIVE MatchAlts(_, _, _, _)
RECURSIVE MatchStar(_, _, _, _, _)
RECURSIVE ThenItems(_, _, _)
RECURSIVE ThenStar(_, _, _, _)

\* the continuation of each outcome of rs with the rest of the alternative
ThenItems(rs, items, s) ==
    IF rs = <<>> THEN <<>>
    ELSE MatchItems(items, s, Head(rs).pos, Head(rs).caps)
             \o ThenItems(Tail(rs), items, s)

\* the continuation of each outcome of rs with further repeats of sub
ThenStar(rs, sub, s, last) ==
    IF rs = <<>> THEN <<>>
    ELSE MatchStar(sub, s, Head(rs).pos, Head(rs).caps, last)
             \o ThenStar(Tail(rs), sub, s, last)

\* greedy repeat: one more repeat first (unless the previous one consumed
\* nothing), then none
MatchStar(sub, s, i, caps, last) ==
    (IF i = last THEN <<>>
     ELSE ThenStar(MatchNode(sub, s, i, caps), sub, s, i))
        \o <<[pos |-> i, caps |-> caps]>>

MatchNode(node, s, i, caps) ==
    CASE node.k = "lit" ->
           IF i <= Len(s) /\ s[i] = node.c
           THEN <<[pos |-> i + 1, caps |-> caps]>> ELSE <<>>
      [] node.k = "any" ->
           IF i <= Len(s) /\ s[i] # NL
           THEN <<[pos |-> i + 1, caps |-> caps]>> ELSE <<>>
      [] node.k = "at" ->
           IF \/ node.c = "^" /\ i = 1
              \/ node.c = "$" /\ (i = Len(s) + 1 \/ (i = Len(s) /\ s[i] = NL))
           THEN <<[pos |-> i, caps |-> caps]>> ELSE <<>>
      [] node.k = "star" -> MatchStar(node.sub, s, i, caps, 0)
      [] node.k = "group" ->
           LET rs == MatchAlts(node.alts, s, i, caps)
           IN  [j \in 1..Len(rs) |->
                   [pos |-> rs[j].pos,
                    caps |-> [rs[j].caps EXCEPT
                                 ![node.n] = [set |-> TRUE, st |-> i,
                                              en |-> rs[j].pos]]]]

MatchItems(items, s, i, caps) ==
    IF items = <<>> THEN <<[pos |-> i, caps |-> caps]>>
    ELSE ThenItems(MatchNode(Head(items), s, i, caps), Tail(items), s)

MatchAlts(alts, s, i, caps) ==
    IF alts = <<>> THEN <<>>
    ELSE MatchItems(Head(alts), s, i, caps) \o MatchAlts(Tail(alts), s, i, caps)

\* the match the engine reports at start position st; an empty match is
\* refused when the scan must advance
MatchAt(c, s, st, must_advance) ==
    LET rs == MatchAlts(c.alts, s, st, NoGroups(c.groups))
        ok == {j \in 1..Len(rs) : ~(must_advance /\ rs[j].pos = st)}
    IN  IF ok = {} THEN [found |-> FALSE, st |-> st, en |-> st,
                         caps |-> NoGroups(c.groups)]
        ELSE [found |-> TRUE, st |-> st, en |-> rs[Min(ok)].pos,
              caps |-> rs[Min(ok)].caps]

\* compiled_pattern.finditer(s): the successive leftmost matches; after an
\* empty match the scan resumes at the same position and must advance
RECURSIVE Scan(_, _, _, _, _)
Scan(c, s, from, st, must_advance) ==
    IF st > Len(s) + 1 THEN <<>>
    ELSE LET m == MatchAt(c, s, st, must_advance /\ st = from)
         IN  IF m.found
             THEN <<m>> \o Scan(c, s, m.en, m.en, m.en = m.st)
             ELSE Scan(c, s, from, st + 1, must_advance)

finditer(c, s) == Scan(c, s, 1, 1, FALSE)

\* match_obj.group(0)
Group0(s, m) == SubSeq(s, m.st, m.en - 1)

\* match_obj.groups(): one entry per group of the pattern, None for a group
\* that did not participate
Participates(m, g) == m.caps[g].set
GroupText(s, m, g) == SubSeq(s, m.caps[g].st, m.caps[g].en - 1)

\* an element of a list of matches: a string, or the tuple findall makes of
\* the groups of a pattern that has several
StrItem(x) == [tuple |-> FALSE, parts |-> <<x>>]
TupleItem(xs) == [tuple |-> TRUE, parts |-> xs]

\* compiled_pattern.findall(s)
FindallItem(c, s, m) ==
    LET text(g) == IF Participates(m, g) THEN GroupText(s, m, g) ELSE <<>>
    IN  IF c.groups = 0 THEN StrItem(Group0(s, m))
        ELSE IF c.groups = 1 THEN StrItem(text(1))
        ELSE TupleItem([g \in 1..c.groups |-> text(g)])

findall(c, s) ==
    LET ms == finditer(c, s)
    IN  [j \in 1..Len(ms) |-> FindallItem(c, s, ms[j])]

(***************************************************************************)
(* The extractor's helpers.                                                *)
(***************************************************************************)
\* regex_chars of looks_like_regex
RegexChars == {"\\", "^", "$", ".", "*", "+", "?", "{", "}", "[", "]", "|",
               "(", ")"}

\* the class [\\^$.*+?{}[\]|()\-] of the last two extraction patterns
ClassChars == RegexChars \cup {"-"}

\* the class [\\^$.+?{}[\]|()\-] of regex_chars_pattern (no "*")
ScanChars == ClassChars \ {"*"}

MinLooksLen == 3
MaxLooksLen == 200
MinRegexChars == 2
MinWordLen == 5
MinScanRun == 3

looks_like_regex(text) ==
    IF text = <<>> \/ Len(text) < MinLooksLen THEN FALSE
    ELSE LET regex_char_count ==
                 Cardinality({k \in 1..Len(text) : text[k] \in RegexChars})
         IN  regex_char_count >= MinRegexChars /\ Len(text) <= MaxLooksLen

is_valid_regex(pattern) == Compile(pattern).ok

\* the canned (keyword, pattern) pairs, in the dictionary's iteration order
fallback_patterns == <<
    [keyword |-> <<"e", "m", "a", "i", "l">>,
     pattern |-> <<"^", "[", "a", "-", "z", "A", "-", "Z", "0", "-", "9", ".", "_", "%", "+", "-", "]", "+", "@", "[", "a", "-", "z", "A", "-", "Z", "0", "-", "9", ".", "-", "]", "+", "\\", ".", "[", "a", "-", "z", "A", "-", "Z", "]", "{", "2", ",", "}", "$">>],
    [keyword |-> <<"p", "h", "o", "n", "e">>,
     pattern |-> <<"^", "\\", "(", "?", "[", "0", "-", "9", "]", "{", "3", "}", "\\", ")", "?", "[", "-", ".", "\\", "s", "]", "?", "[", "0", "-", "9", "]", "{", "3", "}", "[", "-", ".", "\\", "s", "]", "?", "[", "0", "-", "9", "]", "{", "4", "}", "$">>],
    [keyword |-> <<"u", "r", "l">>,
     pattern |-> <<"h", "t", "t", "p", "s", "?", ":", "/", "/", "(", "?", ":", "[", "-", "\\", "w", ".", "]", ")", "+", "(", "?", ":", "[", ":", "\\", "d", "]", "+", ")", "?", "(", "?", ":", "/", "(", "?", ":", "[", "\\", "w", "/", "_", ".", "]", ")", "*", "(", "?", ":", "\\", "?", "(", "?", ":", "[", "\\", "w", "&", "=", "%", ".", "]", "*", ")", ")", "?", "(", "?", ":", "#", "(", "?", ":", "\\", "w", "*", ")", ")", "?", ")", "?">>],
    [keyword |-> <<"i", "p">>,
     pattern |-> <<"^", "(", "?", ":", "(", "?", ":", "2", "5", "[", "0", "-", "5", "]", "|", "2", "[", "0", "-", "4", "]", "[", "0", "-", "9", "]", "|", "[", "0", "1", "]", "?", "[", "0", "-", "9", "]", "[", "0", "-", "9", "]", "?", ")", "\\", ".", ")", "{", "3", "}", "(", "?", ":", "2", "5", "[", "0", "-", "5", "]", "|", "2", "[", "0", "-", "4", "]", "[", "0", "-", "9", "]", "|", "[", "0", "1", "]", "?", "[", "0", "-", "9", "]", "[", "0", "-", "9", "]", "?", ")", "$">>],
    [keyword |-> <<"d", "a", "t", "e">>,
     pattern |-> <<"^", "\\", "d", "{", "1", ",", "2", "}", "/", "\\", "d", "{", "1", ",", "2", "}", "/", "\\", "d", "{", "4", "}", "$">>],
    [keyword |-> <<"t", "i", "m", "e">>,
     pattern |-> <<"^", "(", "[", "0", "1", "]", "?", "[", "0", "-", "9", "]", "|", "2", "[", "0", "-", "3", "]", ")", ":", "[", "0", "-", "5", "]", "[", "0", "-", "9", "]", "$">>],
    [keyword |-> <<"n", "u", "m", "b", "e", "r">>,
     pattern |-> <<"^", "\\", "d", "+", "$">>],
    [keyword |-> <<"w", "o", "r", "d">>,
     pattern |-> <<"^", "[", "a", "-", "z", "A", "-", "Z", "]", "+", "$">>],
    [keyword |-> <<"a", "l", "p", "h", "a", "n", "u", "m", "e", "r", "i", "c">>,
     pattern |-> <<"^", "[", "a", "-", "z", "A", "-", "Z", "0", "-", "9", "]", "+", "$">>]
>>

\* the ultimate fallback, r'.*'
UltimateFallback == <<".", "*">>

\* the fallback entries whose keyword occurs in the lower-cased response
FallbackHits(response) ==
    {k \in 1..Len(fallback_patterns) :
        Contains(lower(response), fallback_patterns[k].keyword)}

\* generate_fallback_pattern without response.lower(): the keywords are looked
\* up in the response as written
generate_fallback_pattern_case_sensitive(response) ==
    LET hits == {k \in 1..Len(fallback_patterns) :
                    Contains(response, fallback_patterns[k].keyword)}
    IN  IF hits # {} THEN fallback_patterns[Min(hits)].pattern
        ELSE UltimateFallback

generate_fallback_pattern(response) ==
    IF FallbackHits(response) # {}
    THEN fallback_patterns[Min(FallbackHits(response))].pattern
    ELSE UltimateFallback

(***************************************************************************)
(* Strategy 2: the eight extraction patterns, each searched in the whole   *)
(* text with re.IGNORECASE | re.MULTILINE; the value is group 1 of the     *)
(* leftmost match.                                                         *)
(***************************************************************************)
LabelRegex      == <<"R", "E", "G", "E", "X", ":">>
LabelPattern    == <<"P", "a", "t", "t", "e", "r", "n", ":">>
LabelExpression == <<"E", "x", "p", "r", "e", "s", "s", "i", "o", "n", ":">>
WordRegex       == <<"r", "e", "g", "e", "x">>

\* the literal lit matches text at position i, letter case ignored
MatchesAtCI(text, i, lit) ==
    /\ i + Len(lit) - 1 <= Len(text)
    /\ \A j \in 1..Len(lit) : LowerChar(text[i + j - 1]) = LowerChar(lit[j])

\* length of the run of whitespace that starts at position p
WsRun(text, p) ==
    LET stops == {j \in p..Len(text) : text[j] \notin Whitespace}
    IN  IF stops = {} THEN Len(text) + 1 - p ELSE Min(stops) - p

\* label\s*(.+): \s* is greedy and may cross line ends; it gives characters
\* back only when (.+) would otherwise have nothing to match
LabelStarts(text, label, i) ==
    {p \in (i + Len(label))..(i + Len(label) + WsRun(text, i + Len(label))) :
        p <= Len(text) /\ text[p] # NL}

SearchLabel(text, label) ==
    LET hits == {i \in 1..Len(text) :
                    MatchesAtCI(text, i, label) /\ LabelStarts(text, label, i) # {}}
    IN  IF hits = {} THEN NoCapture
        ELSE LET p == Max(LabelStarts(text, label, Min(hits)))
             IN  Capture(SubSeq(text, p, EndOfLine(text, p)))

\* a delimiter at b that opens a non-empty delimited token: d([^d]+)d
OpensToken(text, d, b) ==
    /\ b + 1 <= Len(text)
    /\ text[b] = d
    /\ text[b + 1] # d
    /\ \E j \in (b + 2)..Len(text) : text[j] = d

TokenAt(text, d, b) ==
    SubSeq(text, b + 1, Min({j \in (b + 2)..Len(text) : text[j] = d}) - 1)

\* `([^`]+)` and /([^/]+)/
SearchDelimited(text, d) ==
    LET hits == {b \in 1..Len(text) : OpensToken(text, d, b)}
    IN  IF hits = {} THEN NoCapture ELSE Capture(TokenAt(text, d, Min(hits)))

\* (?:regex)?\s*`([^`]+)`\s* : the backtick reached from start i, the
\* optional word taken first
PrefixedTicks(text, i) ==
    LET withWord == IF MatchesAtCI(text, i, WordRegex)
                    THEN {i + Len(WordRegex) + WsRun(text, i + Len(WordRegex))}
                    ELSE {}
        without  == {i + WsRun(text, i)}
    IN  [first |-> {b \in withWord : OpensToken(text, Backtick, b)},
         second |-> {b \in without : OpensToken(text, Backtick, b)}]

SearchPrefixedTick(text) ==
    LET hits == {i \in 1..Len(text) :
                    PrefixedTicks(text, i).first \cup PrefixedTicks(text, i).second # {}}
    IN  IF hits = {} THEN NoCapture
        ELSE LET t == PrefixedTicks(text, Min(hits))
                 b == IF t.first # {} THEN Min(t.first) ELSE Min(t.second)
             IN  Capture(TokenAt(text, Backtick, b))

\* ^([class].+)$ : a line whose first character is in the class and that has
\* at least one more character
LineStarts(text) == {i \in 1..Len(text) : i = 1 \/ text[i - 1] = NL}

SearchClassLine(text) ==
    LET hits == {i \in LineStarts(text) :
                    /\ text[i] \in ClassChars
                    /\ i + 1 <= Len(text)
                    /\ text[i + 1] # NL}
    IN  IF hits = {} THEN NoCapture
        ELSE Capture(SubSeq(text, Min(hits), EndOfLine(text, Min(hits))))

\* ([class]{2,}.+) : two class characters and at least one more character
SearchClassRun(text) ==
    LET hits == {i \in 1..Len(text) :
                    /\ i + 2 <= Len(text)
                    /\ text[i] \in ClassChars
                    /\ text[i + 1] \in ClassChars
                    /\ text[i + 2] # NL}
    IN  IF hits = {} THEN NoCapture
        ELSE Capture(SubSeq(text, Min(hits), EndOfLine(text, Min(hits))))

\* extraction_patterns, in the order of the list
NumExtractionPatterns == 8

ExtractionSearch(text, k) ==
    CASE k = 1 -> SearchLabel(text, LabelRegex)
      [] k = 2 -> SearchLabel(text, LabelPattern)
      [] k = 3 -> SearchLabel(text, LabelExpression)
      [] k = 4 -> SearchDelimited(text, Backtick)
      [] k = 5 -> SearchPrefixedTick(text)
      [] k = 6 -> SearchDelimited(text, "/")
      [] k = 7 -> SearchClassLine(text)
      [] k = 8 -> SearchClassRun(text)

\* the extraction patterns that match and whose stripped group 1 compiles
ValidExtractions(text) ==
    {k \in 1..NumExtractionPatterns :
        /\ ExtractionSearch(text, k).found
        /\ is_valid_regex(strip(ExtractionSearch(text, k).text))}

(***************************************************************************)
(* The cascade.                                                            *)
(***************************************************************************)
\* Strategy 1: the first stripped line that looks like a pattern
RegexLines(text) ==
    LET lines == SplitLines(text)
    IN  {k \in 1..Len(lines) :
            strip(lines[k]) # <<>> /\ looks_like_regex(strip(lines[k]))}

Strategy1(text) ==
    IF RegexLines(text) = {} THEN NoCapture
    ELSE Capture(strip(SplitLines(text)[Min(RegexLines(text))]))

\* Strategy 2: the first extraction pattern with a compilable group 1
Strategy2(text) ==
    IF ValidExtractions(text) = {} THEN NoCapture
    ELSE Capture(strip(ExtractionSearch(text, Min(ValidExtractions(text))).text))

\* Strategy 3: the longest word that looks like a pattern, the first of the
\* longest ones
PotentialPatterns(text) ==
    LET words == SplitWords(text)
    IN  {k \in 1..Len(words) :
            Len(words[k]) > MinWordLen /\ looks_like_regex(words[k])}

Strategy3(text) ==
    LET words == SplitWords(text)
        pp    == PotentialPatterns(text)
    IN  IF pp = {} THEN NoCapture
        ELSE Capture(words[Min({k \in pp :
                                   \A j \in pp : Len(words[j]) <= Len(words[k])})])

\* Strategy 4: the first run of three or more scan characters, with the
\* characters after it that are neither scan characters nor whitespace
ScanEnd(text, i) ==
    LET afterRun  == Min({j \in i..(Len(text) + 1) :
                             j > Len(text) \/ text[j] \notin ScanChars})
        afterTail == Min({j \in afterRun..(Len(text) + 1) :
                             \/ j > Len(text)
                             \/ text[j] \in ScanChars
                             \/ text[j] \in Whitespace})
    IN  afterTail - 1

Strategy4(text) ==
    LET hits == {i \in 1..Len(text) :
                    /\ i + MinScanRun - 1 <= Len(text)
                    /\ \A j \in i..(i + MinScanRun - 1) : text[j] \in ScanChars}
    IN  IF hits = {} THEN NoCapture
        ELSE Capture(SubSeq(text, Min(hits), ScanEnd(text, Min(hits))))

extract_regex_from_response(response) ==
    LET cleaned_response == strip(response) IN
    IF Strategy1(cleaned_response).found THEN Strategy1(cleaned_response).text
    ELSE IF Strategy2(cleaned_response).found THEN Strategy2(cleaned_response).text
    ELSE IF Strategy3(cleaned_response).found THEN Strategy3(cleaned_response).text
    ELSE IF Strategy4(cleaned_response).found THEN Strategy4(cleaned_response).text
    ELSE generate_fallback_pattern(cleaned_response)

\* the sentinel the generate endpoint compares the pattern with
NotFoundSentinel == <<"C", "o", "u", "l", "d", " ", "n", "o", "t", " ", "e", "x", "t", "r", "a", "c", "t", " ", "r", "e", "g", "e", "x", " ", "p", "a", "t", "t", "e", "r", "n">>

(***************************************************************************)
(* The tester: SmartRegexGenerator.test_regex.                             *)
(***************************************************************************)
\* what one match contributes to detailed_matches
DetailedOf(c, s, m) ==
    IF c.groups > 0
    THEN LET RECURSIVE Groups(_)
             Groups(g) ==
                 IF g > c.groups THEN <<>>
                 ELSE (IF Participates(m, g)
                       THEN <<StrItem(GroupText(s, m, g))>> ELSE <<>>)
                          \o Groups(g + 1)
         IN  Groups(1)
    ELSE <<StrItem(Group0(s, m))>>

RECURSIVE DetailedMatches(_, _, _)
DetailedMatches(c, s, ms) ==
    IF ms = <<>> THEN <<>>
    ELSE DetailedOf(c, s, Head(ms)) \o DetailedMatches(c, s, Tail(ms))

ErrorPrefix == "Invalid regex pattern: "

\* test_regex without its except clauses: the outcome is built from whatever
\* the compilation left
test_regex_unchecked(pattern, test_string) ==
    LET compiled_pattern == Compile(pattern)
        detailed_matches ==
            DetailedMatches(compiled_pattern, test_string,
                            finditer(compiled_pattern, test_string))
    IN  [success |-> TRUE,
         error |-> <<>>,
         matches |-> detailed_matches,
         match_count |-> Len(detailed_matches),
         is_valid |-> TRUE,
         groups |-> compiled_pattern.groups]

\* test_regex without the findall fallback: final_matches = detailed_matches
test_regex_detailed_only(pattern, test_string) ==
    LET compiled_pattern == Compile(pattern) IN
    IF compiled_pattern.ok
    THEN LET detailed_matches ==
                 DetailedMatches(compiled_pattern, test_string,
                                 finditer(compiled_pattern, test_string))
         IN  [success |-> TRUE,
              error |-> <<>>,
              matches |-> detailed_matches,
              match_count |-> Len(detailed_matches),
              is_valid |-> TRUE,
              groups |-> compiled_pattern.groups]
    ELSE [success |-> FALSE,
          error |-> <<ErrorPrefix, compiled_pattern.error>>,
          matches |-> <<>>,
          match_count |-> 0,
          is_valid |-> FALSE,
          groups |-> 0]

test_regex(pattern, test_string) ==
    LET compiled_pattern == Compile(pattern) IN
    IF compiled_pattern.ok
    THEN LET matches == findall(compiled_pattern, test_string)
             match_objects == finditer(compiled_pattern, test_string)
             detailed_matches ==
                 DetailedMatches(compiled_pattern, test_string, match_objects)
             final_matches ==
                 IF detailed_matches # <<>> THEN detailed_matches ELSE matches
         IN  [success |-> TRUE,
              error |-> <<>>,
              matches |-> final_matches,
              match_count |-> Len(final_matches),
              is_valid |-> TRUE,
              groups |-> compiled_pattern.groups]
    ELSE [success |-> FALSE,
          error |-> <<ErrorPrefix, compiled_pattern.error>>,
          matches |-> <<>>,
          match_count |-> 0,
          is_valid |-> FALSE,
          groups |-> 0]

(***************************************************************************)
(* The generate request: SmartRegexGenerator.generate_regex extracts the   *)
(* pattern from the service's reply, and the /api/generate endpoint sets   *)
(* extraction_successful by comparing it with the sentinel.                *)
(* The call to the generation service is taken to succeed.                *)
(***************************************************************************)
VARIABLES ai_response, regex_pattern, extraction_successful, pc,
          pattern, test_string, result, tpc

vars == <<ai_response, regex_pattern, extraction_successful, pc,
          pattern, test_string, result, tpc>>

genVars == <<ai_response, regex_pattern, extraction_successful, pc>>
testVars == <<pattern, test_string, result, tpc>>

\* the pieces the replies of the model are made of
Fragments == {
    LabelRegex,
    <<"p", "a", "t", "t", "e", "r", "n", ":">>,
    <<"e", "m", "a", "i", "l">>,
    <<"E", "M", "a", "i", "l">>,
    <<"i", "p">>,
    <<Backtick>>,
    <<"/">>,
    <<" ">>,
    <<NL>>,
    <<"a">>,
    <<".", "*">>,
    <<"(">>,
    <<"-">> }

RECURSIVE Flatten(_)
Flatten(fs) == IF fs = <<>> THEN <<>> ELSE Head(fs) \o Flatten(Tail(fs))

Replies == {Flatten(fs) : fs \in UNION {[1..m -> Fragments] : m \in 0..MaxFrags}}

NoResult == [success |-> FALSE, error |-> <<>>, matches |-> <<>>,
             match_count |-> 0, is_valid |-> FALSE, groups |-> 0]

TestIdle ==
    /\ pattern = <<>>
    /\ test_string = <<>>
    /\ result = NoResult
    /\ tpc = "idle"

Init ==
    /\ ai_response \in Replies
    /\ regex_pattern = <<>>
    /\ extraction_successful = FALSE
    /\ pc = "request"
    /\ TestIdle

\* generate_regex: regex_pattern = self.extract_regex_from_response(ai_response)
Extract ==
    /\ pc = "request"
    /\ regex_pattern' = extract_regex_from_response(ai_response)
    /\ pc' = "extracted"
    /\ UNCHANGED <<ai_response, extraction_successful>>
    /\ UNCHANGED testVars

\* the endpoint: extraction_successful = regex != "Could not extract regex pattern"
Respond ==
    /\ pc = "extracted"
    /\ extraction_successful' = (regex_pattern # NotFoundSentinel)
    /\ pc' = "done"
    /\ UNCHANGED <<ai_response, regex_pattern>>
    /\ UNCHANGED testVars

Next == Extract \/ Respond

Spec == Init /\ [][Next]_vars

(***************************************************************************)
(* The test request: the /api/test endpoint strips the pattern, refuses an *)
(* empty one, and hands the rest to test_regex (the generator is taken to  *)
(* be configured).                                                         *)
(***************************************************************************)
PatternChars == {"a", "(", ")", "|", "*", " "}
SampleChars == {"a", "b"}

StringsUpTo(chars, n) == UNION {[1..m -> chars] : m \in 0..n}

GenerateIdle ==
    /\ ai_response = <<>>
    /\ regex_pattern = <<>>
    /\ extraction_successful = FALSE
    /\ pc = "idle"

InitTest ==
    /\ pattern \in StringsUpTo(PatternChars, MaxPatLen)
    /\ test_string \in StringsUpTo(SampleChars, MaxSampleLen)
    /\ result = NoResult
    /\ tpc = "request"
    /\ GenerateIdle

\* if not regex_pattern: "Regex pattern cannot be empty" (400)
RejectEmptyPattern ==
    /\ tpc = "request"
    /\ strip(pattern) = <<>>
    /\ tpc' = "rejected"
    /\ UNCHANGED <<pattern, test_string, result>>
    /\ UNCHANGED genVars

\* result = generator.test_regex(regex_pattern, test_string)
TestRegex ==
    /\ tpc = "request"
    /\ strip(pattern) # <<>>
    /\ result' = test_regex(strip(pattern), test_string)
    /\ tpc' = "done"
    /\ UNCHANGED <<pattern, test_string>>
    /\ UNCHANGED genVars

NextTest == RejectEmptyPattern \/ TestRegex

SpecTest == InitTest /\ [][NextTest]_vars

(***************************************************************************)
(* Properties of the extractor (checked under Spec).                       *)
(***************************************************************************)
\* the reply as the cascade sees it
Cleaned == strip(ai_response)

Extracted == pc \in {"extracted", "done"}

CannedPatterns ==
    {fallback_patterns[k].pattern : k \in 1..Len(fallback_patterns)}

\* the canned patterns use syntax outside the modelled dialect; each of them
\* is a fixed pattern that the engine compiles
CompilesUnderEngine(p) == p \in CannedPatterns \/ is_valid_regex(p)

EmailKeyword == <<"e", "m", "a", "i", "l">>

EmailPattern ==
    fallback_patterns[CHOOSE k \in 1..Len(fallback_patterns) :
                          fallback_patterns[k].keyword = EmailKeyword].pattern

ContainsEmail == Contains(lower(ai_response), EmailKeyword)

Labels == {LabelRegex, LabelPattern, LabelExpression}

LabelOccurrences(text, label) ==
    {i \in 1..Len(text) : MatchesAtCI(text, i, label)}

HasLabel(text) == \E label \in Labels : LabelOccurrences(text, label) # {}

\* the non-empty contents enclosed between two successive delimiters d
DelimitedTokens(text, d) ==
    {SubSeq(text, b + 1, j - 1) : <<b, j>> \in
        {bj \in (1..Len(text)) \X (1..Len(text)) :
            /\ bj[2] > bj[1] + 1
            /\ text[bj[1]] = d
            /\ text[bj[2]] = d
            /\ \A x \in (bj[1] + 1)..(bj[2] - 1) : text[x] # d}}

CompilableTokens(text, ds) ==
    {t \in UNION {DelimitedTokens(text, d) : d \in ds} : is_valid_regex(t)}

\* the lines that begin with REGEX: and go on with a compilable pattern
AfterRegexLabel(line) == strip(SubSeq(line, Len(LabelRegex) + 1, Len(line)))

RegexLabelledPatterns ==
    LET lines == SplitLines(ai_response)
    IN  {AfterRegexLabel(lines[k]) : k \in
            {j \in 1..Len(lines) :
                /\ Len(lines[j]) >= Len(LabelRegex)
                /\ SubSeq(lines[j], 1, Len(LabelRegex)) = LabelRegex
                /\ AfterRegexLabel(lines[j]) # <<>>
                /\ is_valid_regex(AfterRegexLabel(lines[j]))}}

\* no strategy before the keyword fallback yields a pattern
EarlierStrategiesFail ==
    /\ ~Strategy1(Cleaned).found
    /\ ~Strategy2(Cleaned).found
    /\ ~Strategy3(Cleaned).found
    /\ ~Strategy4(Cleaned).found

\* C1: a reply with a line that begins with REGEX: followed by a compilable
\* pattern yields exactly that pattern, trimmed and without the label,
\* whatever else the reply holds.
C1_LabelledLineWins ==
    (Extracted /\ RegexLabelledPatterns # {})
        => regex_pattern \in RegexLabelledPatterns

\* C2: the string the extractor returns compiles under the pattern engine,
\* whichever strategy produced it.
C2_ResultCompiles == Extracted => CompilesUnderEngine(regex_pattern)

\* C3: a reply with no labelled line and a compilable token enclosed in
\* backticks or in slashes yields the enclosed content of such a token
\* (trimmed or not), not the line around it.
C3_DelimitedTokenReturned ==
    (/\ Extracted
     /\ ~HasLabel(ai_response)
     /\ CompilableTokens(ai_response, {Backtick, "/"}) # {})
        => \E t \in CompilableTokens(ai_response, {Backtick, "/"}) :
               regex_pattern \in {t, strip(t)}

\* C4: when no strategy yields a pattern and no keyword of the fallback table
\* occurs (as for an empty reply), the extractor returns the sentinel and the
\* endpoint reports extraction_successful false.
C4_NotFoundSentinel ==
    (pc = "done" /\ EarlierStrategiesFail /\ FallbackHits(Cleaned) = {})
        => (regex_pattern = NotFoundSentinel /\ ~extraction_successful)

\* C5 as stated: a reply with no labelled line and no compilable
\* backtick-delimited token that contains "email" in any letter case yields
\* the canned email pattern.
C5_EmailWithoutLabelOrToken ==
    (/\ Extracted
     /\ ~HasLabel(ai_response)
     /\ CompilableTokens(ai_response, {Backtick}) = {}
     /\ ContainsEmail)
        => regex_pattern = EmailPattern

\* a reply with no label, no backtick, no slash and no character of the
\* pattern classes
PlainReply ==
    /\ ~HasLabel(ai_response)
    /\ \A k \in 1..Len(ai_response) :
           ai_response[k] \notin ClassChars \cup {Backtick, "/"}

\* C5 as amended: a reply that contains "email" in any letter case and from
\* which no strategy before the keyword fallback takes a pattern yields the
\* canned email pattern; a reply with no label, backtick, slash,
\* metacharacter or hyphen is such a reply.
C5_EmailFallback ==
    /\ (Extracted /\ EarlierStrategiesFail /\ ContainsEmail)
           => regex_pattern = EmailPattern
    /\ PlainReply => EarlierStrategiesFail

\* a reply with "EMail" and the later keyword "ip" has been answered with
\* the canned email pattern
C5_Witness ==
    /\ pc = "done"
    /\ PlainReply
    /\ Contains(ai_response, <<"E", "M", "a", "i", "l">>)
    /\ Contains(ai_response, <<"i", "p">>)
    /\ regex_pattern = EmailPattern

\* C6: the pattern the extractor returns is never the empty string.
C6_ResultNonEmpty == Extracted => regex_pattern # <<>>

\* the label whose extraction pattern gave the result
TakenFromLabel ==
    /\ ~Strategy1(Cleaned).found
    /\ ValidExtractions(Cleaned) # {}
    /\ Min(ValidExtractions(Cleaned)) <= 3

WinningLabel ==
    <<LabelRegex, LabelPattern, LabelExpression>>[Min(ValidExtractions(Cleaned))]

\* C10: a result taken from a label is the trimmed remainder of the line on
\* which the label occurs, never text of a following line.
C10_LabelSameLine ==
    (Extracted /\ TakenFromLabel)
        => \E i \in LabelOccurrences(Cleaned, WinningLabel) :
               regex_pattern =
                   strip(SubSeq(Cleaned, i + Len(WinningLabel),
                                EndOfLine(Cleaned, i)))

(***************************************************************************)
(* Properties of the tester (checked under SpecTest).                      *)
(***************************************************************************)
\* the pattern handed to test_regex
Tested == strip(pattern)

\* C7: a pattern that fails to compile gives an Invalid outcome: success and
\* is_valid false, an error message carrying the engine's diagnostic, no
\* matches and match_count 0.
C7_InvalidOutcome ==
    (tpc = "done" /\ ~Compile(Tested).ok)
        => /\ ~result.success
           /\ ~result.is_valid
           /\ result.error # <<>>
           /\ result.error[2] # ""
           /\ result.error[2] = Compile(Tested).error
           /\ result.matches = <<>>
           /\ result.match_count = 0

\* the unterminated group "(" has been tested against a non-empty sample
C7_Witness ==
    /\ tpc = "done"
    /\ Tested = <<"(">>
    /\ test_string = <<"a", "b">>
    /\ ~result.success

\* what C8 says one occurrence contributes: its participating groups, or the
\* whole text when the pattern has no group or none participated
ClaimedOf(c, s, m) ==
    IF c.groups > 0 /\ \E g \in 1..c.groups : Participates(m, g)
    THEN DetailedOf(c, s, m)
    ELSE <<StrItem(Group0(s, m))>>

RECURSIVE ClaimedMatches(_, _, _)
ClaimedMatches(c, s, ms) ==
    IF ms = <<>> THEN <<>>
    ELSE ClaimedOf(c, s, Head(ms)) \o ClaimedMatches(c, s, Tail(ms))

\* C8: for a compilable pattern, matches lists, occurrence by occurrence from
\* left to right, the participating groups of the occurrence, or its whole
\* text when no group participated; match_count is the length of the list.
C8_MatchesList ==
    (tpc = "done" /\ Compile(Tested).ok)
        => LET c == Compile(Tested)
               claimed == ClaimedMatches(c, test_string, finditer(c, test_string))
           IN  /\ result.success
               /\ result.matches = claimed
               /\ result.match_count = Len(claimed)

MatchesEmpty(c) == MatchAt(c, <<>>, 1, FALSE).found

====
